---- MODULE Spec2Model ----
(***************************************************************************)
(* buildCanvasSDXLOutpaintGraph: the assembler of the Canvas tab's SDXL    *)
(* outpaint graph                                                          *)
(* (features/nodes/util/graphBuilders/buildCanvasSDXLOutpaintGraph.ts).    *)
(*                                                                         *)
(* The function is synchronous. It is modelled statement group by          *)
(* statement group, `pc` naming the next group to run, so that the order   *)
(* of the node insertions, edge insertions and collaborator calls is       *)
(* observable. `trace` records, in program order, every call the function  *)
(* makes to a collaborator and every mutation it makes to `graph`.         *)
(*                                                                         *)
(* Fractions (img2imgStrength, refinerStart, the denoising bounds) are     *)
(* exact multiples of 1/Scale: the number x/Scale is the integer x, and    *)
(* the literal 1 is Scale.                                                 *)
(*                                                                         *)
(* The six add...ToGraph collaborators live in other files. Here a call    *)
(* to one is an event of `trace` carrying the anchors passed; what the     *)
(* collaborator does to the graph is not part of this module.              *)
(***************************************************************************)
EXTENDS Integers, Sequences, FiniteSets, TLC

VARIABLES state, pc, graph, trace, thrown, returned

vars == <<state, pc, graph, trace, thrown, returned>>

----------------------------------------------------------------------------
(* Bounds of the input space. *)

Scale == 2
MaxSeed == 1
MaxIterations == 2

----------------------------------------------------------------------------
(* Node ids, imported from ./constants: distinct identifiers. *)

CANVAS_OUTPUT == "CANVAS_OUTPUT"
COLOR_CORRECT == "COLOR_CORRECT"
INPAINT == "INPAINT"
INPAINT_GRAPH == "INPAINT_GRAPH"
INPAINT_IMAGE == "INPAINT_IMAGE"
INPAINT_INFILL == "INPAINT_INFILL"
ITERATE == "ITERATE"
LATENTS_TO_IMAGE == "LATENTS_TO_IMAGE"
MASK_BLUR == "MASK_BLUR"
MASK_COMBINE == "MASK_COMBINE"
MASK_FROM_ALPHA == "MASK_FROM_ALPHA"
NEGATIVE_CONDITIONING == "NEGATIVE_CONDITIONING"
NOISE == "NOISE"
POSITIVE_CONDITIONING == "POSITIVE_CONDITIONING"
RANDOM_INT == "RANDOM_INT"
RANGE_OF_SIZE == "RANGE_OF_SIZE"
SDXL_MODEL_LOADER == "SDXL_MODEL_LOADER"

----------------------------------------------------------------------------
(* The arguments of the function. *)

\* `model` is an object or absent (null / undefined).
NoModel == "null"

canvasInitImage == "canvasInitImage"

canvasMaskImage == "canvasMaskImage"

\* state.generation, as destructured by the function.
Generation ==
  [ positivePrompt : {<<"p">>},
    negativePrompt : {<<"n">>},
    model : {NoModel, "sdxl_base"},
    cfgScale : {7},
    scheduler : {"euler"},
    steps : {20},
    img2imgStrength : 0..Scale,
    iterations : 1..MaxIterations,
    seed : 0..MaxSeed,
    shouldRandomizeSeed : BOOLEAN,
    vaePrecision : {"fp32", "fp16"},
    shouldUseNoiseSettings : {TRUE},
    shouldUseCpuNoise : {TRUE},
    maskBlur : {16},
    maskBlurMethod : {"box"},
    tileSize : {32},
    infillMethod : {"tile", "patchmatch"} ]

\* state.sdxl, as destructured by the function.
Sdxl ==
  [ positiveStylePrompt : {<<"ps">>},
    negativeStylePrompt : {<<"ns">>},
    shouldConcatSDXLStylePrompt : BOOLEAN,
    shouldUseSDXLRefiner : BOOLEAN,
    refinerStart : 0..Scale ]

\* state.canvas: the bounding box gives width and height.
Canvas == [ boundingBoxDimensions : {[width |-> 1024, height |-> 1024]} ]

\* state.system: the two post-processing flags.
System == [ shouldUseNSFWChecker : BOOLEAN, shouldUseWatermarker : BOOLEAN ]

RootState == [ generation : Generation, sdxl : Sdxl, canvas : Canvas, system : System ]

----------------------------------------------------------------------------
(* Values computed before the graph literal. *)

\* JavaScript's !model
Falsy(model) == model = NoModel

use_cpu(s) ==
  IF s.generation.shouldUseNoiseSettings
    THEN s.generation.shouldUseCpuNoise
    ELSE s.generation.shouldUseCpuNoise

InfillTile(s) ==
  [ type |-> "infill_tile",
    id |-> INPAINT_INFILL,
    is_intermediate |-> TRUE,
    image |-> canvasInitImage,
    tile_size |-> s.generation.tileSize ]

InfillPatchmatch ==
  [ type |-> "infill_patchmatch",
    id |-> INPAINT_INFILL,
    is_intermediate |-> TRUE,
    image |-> canvasInitImage ]

\* Mutant: the patchmatch branch is lost, the default stays.
infillNodeAlwaysTile(s) == InfillTile(s)

infillNode(s) ==
  IF s.generation.infillMethod = "patchmatch" THEN InfillPatchmatch ELSE InfillTile(s)

\* The template literal `${prompt} ${style}`.
Template(prompt, style) == prompt \o <<" ">> \o style

Style(s, prompt, style) ==
  IF s.sdxl.shouldConcatSDXLStylePrompt THEN Template(prompt, style) ELSE style

denoising_start(s) == Scale - s.generation.img2imgStrength

\* Mutant: the branches of the conditional are swapped.
denoising_endSwapped(s) ==
  IF s.sdxl.shouldUseSDXLRefiner THEN Scale ELSE s.sdxl.refinerStart

denoising_end(s) == IF s.sdxl.shouldUseSDXLRefiner THEN s.sdxl.refinerStart ELSE Scale

----------------------------------------------------------------------------
(* The graph literal. *)

Edge(sn, sf, dn, df) ==
  [ source |-> [node_id |-> sn, field |-> sf],
    destination |-> [node_id |-> dn, field |-> df] ]

Nodes(s) ==
  SDXL_MODEL_LOADER :>
    [ type |-> "sdxl_model_loader",
      id |-> SDXL_MODEL_LOADER,
      model |-> s.generation.model ]
  @@ POSITIVE_CONDITIONING :>
    [ type |-> "sdxl_compel_prompt",
      id |-> POSITIVE_CONDITIONING,
      prompt |-> s.generation.positivePrompt,
      style |-> Style(s, s.generation.positivePrompt, s.sdxl.positiveStylePrompt) ]
  @@ NEGATIVE_CONDITIONING :>
    [ type |-> "sdxl_compel_prompt",
      id |-> NEGATIVE_CONDITIONING,
      prompt |-> s.generation.negativePrompt,
      style |-> Style(s, s.generation.negativePrompt, s.sdxl.negativeStylePrompt) ]
  @@ infillNode(s).id :> infillNode(s)
  @@ INPAINT_IMAGE :>
    [ type |-> "i2l",
      id |-> INPAINT_IMAGE,
      is_intermediate |-> TRUE,
      fp32 |-> IF s.generation.vaePrecision = "fp32" THEN TRUE ELSE FALSE ]
  @@ MASK_FROM_ALPHA :>
    [ type |-> "tomask",
      id |-> MASK_FROM_ALPHA,
      is_intermediate |-> TRUE,
      image |-> canvasInitImage ]
  @@ MASK_COMBINE :>
    [ type |-> "mask_combine",
      id |-> MASK_COMBINE,
      is_intermediate |-> TRUE,
      mask2 |-> canvasMaskImage ]
  @@ MASK_BLUR :>
    [ type |-> "img_blur",
      id |-> MASK_BLUR,
      is_intermediate |-> TRUE,
      radius |-> s.generation.maskBlur,
      blur_type |-> s.generation.maskBlurMethod ]
  @@ NOISE :>
    [ type |-> "noise",
      id |-> NOISE,
      width |-> s.canvas.boundingBoxDimensions.width,
      height |-> s.canvas.boundingBoxDimensions.height,
      use_cpu |-> use_cpu(s),
      is_intermediate |-> TRUE ]
  @@ INPAINT :>
    [ type |-> "denoise_latents",
      id |-> INPAINT,
      is_intermediate |-> TRUE,
      steps |-> s.generation.steps,
      cfg_scale |-> s.generation.cfgScale,
      scheduler |-> s.generation.scheduler,
      denoising_start |-> denoising_start(s),
      denoising_end |-> denoising_end(s) ]
  @@ LATENTS_TO_IMAGE :>
    [ type |-> "l2i",
      id |-> LATENTS_TO_IMAGE,
      is_intermediate |-> TRUE,
      fp32 |-> IF s.generation.vaePrecision = "fp32" THEN TRUE ELSE FALSE ]
  @@ COLOR_CORRECT :>
    [ type |-> "color_correct", id |-> COLOR_CORRECT, is_intermediate |-> TRUE ]
  @@ CANVAS_OUTPUT :>
    [ type |-> "img_paste", id |-> CANVAS_OUTPUT, is_intermediate |-> TRUE ]
  @@ RANGE_OF_SIZE :>
    [ type |-> "range_of_size",
      id |-> RANGE_OF_SIZE,
      is_intermediate |-> TRUE,
      size |-> s.generation.iterations,
      step |-> 1 ]
  @@ ITERATE :>
    [ type |-> "iterate", id |-> ITERATE, is_intermediate |-> TRUE ]

Edges ==
  << \* Connect Model Loader To UNet and CLIP
     Edge(SDXL_MODEL_LOADER, "unet", INPAINT, "unet"),
     Edge(SDXL_MODEL_LOADER, "clip", POSITIVE_CONDITIONING, "clip"),
     Edge(SDXL_MODEL_LOADER, "clip2", POSITIVE_CONDITIONING, "clip2"),
     Edge(SDXL_MODEL_LOADER, "clip", NEGATIVE_CONDITIONING, "clip"),
     Edge(SDXL_MODEL_LOADER, "clip2", NEGATIVE_CONDITIONING, "clip2"),
     \* Infill The Image
     Edge(INPAINT_INFILL, "image", INPAINT_IMAGE, "image"),
     \* Create mask from image alpha & merge with user painted mask
     Edge(MASK_FROM_ALPHA, "mask", MASK_COMBINE, "mask1"),
     Edge(MASK_COMBINE, "image", MASK_BLUR, "image"),
     \* Connect Everything To Inpaint
     Edge(POSITIVE_CONDITIONING, "conditioning", INPAINT, "positive_conditioning"),
     Edge(NEGATIVE_CONDITIONING, "conditioning", INPAINT, "negative_conditioning"),
     Edge(NOISE, "noise", INPAINT, "noise"),
     Edge(INPAINT_IMAGE, "latents", INPAINT, "latents"),
     Edge(MASK_BLUR, "image", INPAINT, "mask"),
     \* Iterate
     Edge(RANGE_OF_SIZE, "collection", ITERATE, "collection"),
     Edge(ITERATE, "item", NOISE, "seed"),
     \* Decode inpainted latents to image
     Edge(INPAINT, "latents", LATENTS_TO_IMAGE, "latents"),
     \* Color Correct The Inpainted Result
     Edge(INPAINT_INFILL, "image", COLOR_CORRECT, "reference"),
     Edge(LATENTS_TO_IMAGE, "image", COLOR_CORRECT, "image"),
     Edge(MASK_BLUR, "image", COLOR_CORRECT, "mask"),
     \* Paste Back Outpainted Image on Original
     Edge(INPAINT_INFILL, "image", CANVAS_OUTPUT, "base_image"),
     Edge(COLOR_CORRECT, "image", CANVAS_OUTPUT, "image"),
     Edge(MASK_BLUR, "image", CANVAS_OUTPUT, "mask") >>

Graph(s) == [ id |-> INPAINT_GRAPH, nodes |-> Nodes(s), edges |-> Edges ]

\* Before the literal is evaluated there is no graph: no node, no edge.
NoGraph == [ id |-> "undefined", nodes |-> [k \in {} |-> k], edges |-> <<>> ]

----------------------------------------------------------------------------
(* The seed step. *)

randomIntNode == [ id |-> RANDOM_INT, type |-> "rand_int" ]

\* Mutant: the edge is pushed into a port the literal already wires.
RandomIntEdgeIntoCollection == Edge(RANDOM_INT, "a", ITERATE, "collection")

\* Mutant: the edge reads the iterator, which the range feeds.
RandomIntEdgeFromIterate == Edge(ITERATE, "item", RANGE_OF_SIZE, "start")

RandomIntEdge == Edge(RANDOM_INT, "a", RANGE_OF_SIZE, "start")

\* graph.nodes[key] = node
SetNode(g, key, node) ==
  [g EXCEPT !.nodes = [k \in DOMAIN g.nodes \cup {key} |->
                         IF k = key THEN node ELSE g.nodes[k]]]

\* graph.edges.push(edge)
PushEdge(g, edge) == [g EXCEPT !.edges = Append(g.edges, edge)]

\* node[field] = value
SetField(node, field, value) ==
  [f \in DOMAIN node \cup {field} |-> IF f = field THEN value ELSE node[f]]

\* Mutant: the commented-out `start: 0` of the literal instead of the seed.
SetStartZero(g, seed) ==
  [g EXCEPT !.nodes[RANGE_OF_SIZE] = SetField(g.nodes[RANGE_OF_SIZE], "start", 0)]

\* (graph.nodes[RANGE_OF_SIZE] as RangeOfSizeInvocation).start = seed
SetStart(g, seed) ==
  [g EXCEPT !.nodes[RANGE_OF_SIZE] = SetField(g.nodes[RANGE_OF_SIZE], "start", seed)]

----------------------------------------------------------------------------
(* Events of the trace. *)

Call(fn, args) == [ kind |-> "call", what |-> fn, args |-> args ]

Mutation(what) == [ kind |-> "mutation", what |-> what, args |-> <<>> ]

Stages ==
  { "addSDXLRefinerToGraph", "addVAEToGraph", "addSDXLLoRAsToGraph",
    "addControlNetToLinearGraph", "addNSFWCheckerToGraph", "addWatermarkerToGraph" }

----------------------------------------------------------------------------
(* The function, statement group by statement group. *)

Init ==
  /\ state \in RootState
  /\ pc = "start"
  /\ graph = NoGraph
  /\ trace = <<>>
  /\ thrown = "none"
  /\ returned = NoGraph

\* Mutant: the guard is missing and the literal is built with no model.
CheckModelNoThrow ==
  /\ pc = "start"
  /\ pc' = "literal"
  /\ UNCHANGED <<state, graph, trace, thrown, returned>>

\* if (!model) { log.error(...); throw new Error(...) }
CheckModel ==
  /\ pc = "start"
  /\ IF Falsy(state.generation.model)
       THEN /\ trace' = Append(trace, Call("log.error", <<"No model found in state">>))
            /\ thrown' = "No model found in state"
            /\ pc' = "thrown"
       ELSE /\ pc' = "literal"
            /\ UNCHANGED <<trace, thrown>>
  /\ UNCHANGED <<state, graph, returned>>

\* const graph: NonNullableGraph = { id, nodes, edges }
BuildGraph ==
  /\ pc = "literal"
  /\ graph' = Graph(state)
  /\ trace' = Append(trace, Mutation("graph literal"))
  /\ pc' = "refiner"
  /\ UNCHANGED <<state, thrown, returned>>

\* Mutant: the refiner is added whatever the flag.
AddRefinerAlways ==
  /\ pc = "refiner"
  /\ trace' = Append(trace, Call("addSDXLRefinerToGraph", <<INPAINT>>))
  /\ pc' = "vae"
  /\ UNCHANGED <<state, graph, thrown, returned>>

\* if (shouldUseSDXLRefiner) addSDXLRefinerToGraph(state, graph, INPAINT)
AddRefiner ==
  /\ pc = "refiner"
  /\ IF state.sdxl.shouldUseSDXLRefiner
       THEN trace' = Append(trace, Call("addSDXLRefinerToGraph", <<INPAINT>>))
       ELSE UNCHANGED trace
  /\ pc' = "vae"
  /\ UNCHANGED <<state, graph, thrown, returned>>

\* addVAEToGraph(state, graph, SDXL_MODEL_LOADER)
AddVAE ==
  /\ pc = "vae"
  /\ trace' = Append(trace, Call("addVAEToGraph", <<SDXL_MODEL_LOADER>>))
  /\ pc' = "seed"
  /\ UNCHANGED <<state, graph, thrown, returned>>

\* Mutant: the node is never put into the map, the edge is still pushed.
RandomSeedNodeSkipped ==
  /\ pc = "seed"
  /\ state.generation.shouldRandomizeSeed
  /\ pc' = "seed edge"
  /\ UNCHANGED <<state, graph, trace, thrown, returned>>

\* shouldRandomizeSeed: graph.nodes[RANDOM_INT] = randomIntNode
RandomSeedNode ==
  /\ pc = "seed"
  /\ state.generation.shouldRandomizeSeed
  /\ graph' = SetNode(graph, RANDOM_INT, randomIntNode)
  /\ trace' = Append(trace, Mutation("graph.nodes[RANDOM_INT]"))
  /\ pc' = "seed edge"
  /\ UNCHANGED <<state, thrown, returned>>

\* shouldRandomizeSeed: graph.edges.push(RANDOM_INT.a -> RANGE_OF_SIZE.start)
RandomSeedEdge ==
  /\ pc = "seed edge"
  /\ graph' = PushEdge(graph, RandomIntEdge)
  /\ trace' = Append(trace, Mutation("graph.edges.push"))
  /\ pc' = "lora"
  /\ UNCHANGED <<state, thrown, returned>>

\* else: graph.nodes[RANGE_OF_SIZE].start = seed
FixedSeed ==
  /\ pc = "seed"
  /\ ~state.generation.shouldRandomizeSeed
  /\ graph' = SetStart(graph, state.generation.seed)
  /\ trace' = Append(trace, Mutation("graph.nodes[RANGE_OF_SIZE].start"))
  /\ pc' = "lora"
  /\ UNCHANGED <<state, thrown, returned>>

\* addSDXLLoRAsToGraph(state, graph, INPAINT, SDXL_MODEL_LOADER)
AddLoRAs ==
  /\ pc = "lora"
  /\ trace' = Append(trace, Call("addSDXLLoRAsToGraph", <<INPAINT, SDXL_MODEL_LOADER>>))
  /\ pc' = "controlnet"
  /\ UNCHANGED <<state, graph, thrown, returned>>

\* addControlNetToLinearGraph(state, graph, INPAINT)
AddControlNet ==
  /\ pc = "controlnet"
  /\ trace' = Append(trace, Call("addControlNetToLinearGraph", <<INPAINT>>))
  /\ pc' = "nsfw"
  /\ UNCHANGED <<state, graph, thrown, returned>>

\* Mutant: the content filter is keyed on the watermark flag.
AddNSFWCheckerOnWatermarkFlag ==
  /\ pc = "nsfw"
  /\ IF state.system.shouldUseWatermarker
       THEN trace' = Append(trace, Call("addNSFWCheckerToGraph", <<CANVAS_OUTPUT>>))
       ELSE UNCHANGED trace
  /\ pc' = "watermark"
  /\ UNCHANGED <<state, graph, thrown, returned>>

\* if (state.system.shouldUseNSFWChecker) addNSFWCheckerToGraph(state, graph, CANVAS_OUTPUT)
AddNSFWChecker ==
  /\ pc = "nsfw"
  /\ IF state.system.shouldUseNSFWChecker
       THEN trace' = Append(trace, Call("addNSFWCheckerToGraph", <<CANVAS_OUTPUT>>))
       ELSE UNCHANGED trace
  /\ pc' = "watermark"
  /\ UNCHANGED <<state, graph, thrown, returned>>

\* if (state.system.shouldUseWatermarker) addWatermarkerToGraph(state, graph, CANVAS_OUTPUT)
AddWatermarker ==
  /\ pc = "watermark"
  /\ IF state.system.shouldUseWatermarker
       THEN trace' = Append(trace, Call("addWatermarkerToGraph", <<CANVAS_OUTPUT>>))
       ELSE UNCHANGED trace
  /\ pc' = "return"
  /\ UNCHANGED <<state, graph, thrown, returned>>

\* Mutant: a validator is called on the graph before it is returned.
ReturnValidated ==
  /\ pc = "return"
  /\ trace' = Append(trace, Call("validateGraph", <<>>))
  /\ returned' = graph
  /\ pc' = "done"
  /\ UNCHANGED <<state, graph, thrown>>

\* return graph
Return ==
  /\ pc = "return"
  /\ returned' = graph
  /\ pc' = "done"
  /\ UNCHANGED <<state, graph, trace, thrown>>

Next ==
  \/ CheckModel
  \/ BuildGraph
  \/ AddRefiner
  \/ AddVAE
  \/ RandomSeedNode
  \/ RandomSeedEdge
  \/ FixedSeed
  \/ AddLoRAs
  \/ AddControlNet
  \/ AddNSFWChecker
  \/ AddWatermarker
  \/ Return

Spec == Init /\ [][Next]_vars

----------------------------------------------------------------------------
(* Vocabulary of the properties. *)

IsStageCall(e) == e.kind = "call" /\ e.what \in Stages

IsMutation(e) == e.kind = "mutation"

\* The collaborator stages invoked so far, in order of invocation.
StageNames ==
  LET calls == SelectSeq(trace, IsStageCall)
  IN  [i \in 1..Len(calls) |-> calls[i].what]

\* The positions of the trace at which stage `fn` was invoked.
Invocations(fn) == {i \in 1..Len(trace) : IsStageCall(trace[i]) /\ trace[i].what = fn}

Invoked(fn) == Invocations(fn) # {}

IsPrefix(a, b) == Len(a) <= Len(b) /\ \A i \in 1..Len(a) : a[i] = b[i]

GraphExists == pc \notin {"start", "thrown", "literal"}

\* The edges of g that write the port (node, field).
Writers(g, node, field) ==
  {i \in 1..Len(g.edges) :
     g.edges[i].destination.node_id = node /\ g.edges[i].destination.field = field}

\* No destination port is written by two edges.
SingleWriter(g) ==
  \A i, j \in 1..Len(g.edges) :
    i # j => g.edges[i].destination # g.edges[j].destination

\* The arcs source node -> destination node of g.
Arcs(g) ==
  {<<g.edges[i].source.node_id, g.edges[i].destination.node_id>> : i \in 1..Len(g.edges)}

\* Kahn's topological sort: peel the nodes without a predecessor among the
\* remaining ones; what cannot be peeled lies on or behind a cycle.
RECURSIVE Unsorted(_, _)
Unsorted(remaining, arcs) ==
  LET roots == {n \in remaining : ~\E a \in arcs : a[2] = n /\ a[1] \in remaining}
  IN  IF roots = {} THEN remaining ELSE Unsorted(remaining \ roots, arcs)

Acyclic(g) ==
  LET arcs == Arcs(g)
      ids == DOMAIN g.nodes \cup {a[1] : a \in arcs} \cup {a[2] : a \in arcs}
  IN  Unsorted(ids, arcs) = {}

----------------------------------------------------------------------------
(* Properties. *)

\* C1: with no selected model the function throws 'No model found in state'
\* at once: no node and no edge is ever created, no stage is invoked, and no
\* graph is returned.
C1_NoModelThrowsBeforeAnything ==
  Falsy(state.generation.model) =>
    /\ graph = NoGraph
    /\ returned = NoGraph
    /\ StageNames = <<>>
    /\ \A i \in 1..Len(trace) : ~IsMutation(trace[i])
    /\ pc \in {"start", "thrown"}
    /\ pc = "thrown" => thrown = "No model found in state"

C1_Witness ==
  /\ Falsy(state.generation.model)
  /\ pc = "thrown"
  /\ thrown = "No model found in state"
  /\ graph = NoGraph

\* The stages a run with configuration s invokes, in the order of the spec:
\* Refiner, VAE, LoRA, ControlNet, content filter, watermark.
ExpectedStages(s) ==
  (IF s.sdxl.shouldUseSDXLRefiner THEN <<"addSDXLRefinerToGraph">> ELSE <<>>)
  \o <<"addVAEToGraph", "addSDXLLoRAsToGraph", "addControlNetToLinearGraph">>
  \o (IF s.system.shouldUseNSFWChecker THEN <<"addNSFWCheckerToGraph">> ELSE <<>>)
  \o (IF s.system.shouldUseWatermarker THEN <<"addWatermarkerToGraph">> ELSE <<>>)

\* C2: at every moment the stages invoked so far are a prefix of Refiner (iff
\* its flag), VAE, LoRA, ControlNet, content filter, watermark, and a
\* successful run has invoked exactly that list, each stage at most once.
C2_StagesInOrder ==
  /\ IsPrefix(StageNames, ExpectedStages(state))
  /\ pc = "done" => StageNames = ExpectedStages(state)

C2_Witness ==
  /\ pc = "done"
  /\ state.sdxl.shouldUseSDXLRefiner
  /\ Len(StageNames) = 6
  /\ StageNames[1] = "addSDXLRefinerToGraph"
  /\ StageNames[3] = "addSDXLLoRAsToGraph"

\* C3: in a finished run the content filter was applied iff its flag is set,
\* the watermark iff its flag is set; with both, the content filter came
\* first; and an applied watermark is the last event before the return.
C3_FilterThenWatermarkLast ==
  pc = "done" =>
    /\ Invoked("addNSFWCheckerToGraph") <=> state.system.shouldUseNSFWChecker
    /\ Invoked("addWatermarkerToGraph") <=> state.system.shouldUseWatermarker
    /\ \A i \in Invocations("addNSFWCheckerToGraph") :
         \A j \in Invocations("addWatermarkerToGraph") : i < j
    /\ state.system.shouldUseWatermarker =>
         Invocations("addWatermarkerToGraph") = {Len(trace)}

C3_Witness ==
  /\ pc = "done"
  /\ state.system.shouldUseNSFWChecker
  /\ state.system.shouldUseWatermarker
  /\ Invoked("addNSFWCheckerToGraph")
  /\ trace[Len(trace)].what = "addWatermarkerToGraph"

\* C4: the returned graph carries exactly one seed variant. Randomized: a
\* rand_int node, one edge from it into range_of_size.start, no literal
\* start. Fixed: no rand_int node, no edge into start, start = seed. In both,
\* size = iterations and step = 1.
C4_ExactlyOneSeedVariant ==
  pc = "done" =>
    LET range == returned.nodes[RANGE_OF_SIZE]
        into == Writers(returned, RANGE_OF_SIZE, "start")
        rand == {k \in DOMAIN returned.nodes : returned.nodes[k].type = "rand_int"}
    IN  /\ range.size = state.generation.iterations
        /\ range.step = 1
        /\ IF state.generation.shouldRandomizeSeed
             THEN /\ rand = {RANDOM_INT}
                  /\ Cardinality(into) = 1
                  /\ \A i \in into : returned.edges[i].source.node_id = RANDOM_INT
                  /\ "start" \notin DOMAIN range
             ELSE /\ rand = {}
                  /\ into = {}
                  /\ "start" \in DOMAIN range
                  /\ range.start = state.generation.seed

C4_Witness ==
  /\ pc = "done"
  /\ ~state.generation.shouldRandomizeSeed
  /\ state.generation.seed = 1
  /\ returned.nodes[RANGE_OF_SIZE].start = 1

C6_SingleWriterPerPort == SingleWriter(graph) /\ SingleWriter(returned)

C6_Witness ==
  /\ pc = "lora"
  /\ state.generation.shouldRandomizeSeed
  /\ Len(graph.edges) = Len(Edges) + 1
  /\ Writers(graph, RANGE_OF_SIZE, "start") = {Len(graph.edges)}

\* C7: at every point of the assembly, and in the returned graph, the arcs
\* source node -> destination node admit a topological order: no cycle.
C7_Acyclic == Acyclic(graph) /\ Acyclic(returned)

C7_Witness ==
  /\ pc = "done"
  /\ state.generation.shouldRandomizeSeed
  /\ <<RANDOM_INT, RANGE_OF_SIZE>> \in Arcs(returned)
  /\ Acyclic(returned)

\* C8: in every state both endpoints of every edge are keys of the node map
\* (so each edge was added when its nodes were there, the rand_int node
\* before the edge that reads it), and every node's id is its key.
C8_EndpointsPresentIdsMatch ==
  /\ \A i \in 1..Len(graph.edges) :
       /\ graph.edges[i].source.node_id \in DOMAIN graph.nodes
       /\ graph.edges[i].destination.node_id \in DOMAIN graph.nodes
  /\ \A k \in DOMAIN graph.nodes : graph.nodes[k].id = k

C8_Witness ==
  /\ pc = "seed edge"
  /\ RANDOM_INT \in DOMAIN graph.nodes
  /\ graph.nodes[RANDOM_INT].id = RANDOM_INT
  /\ Writers(graph, RANGE_OF_SIZE, "start") = {}

InfillTypes == {"infill_tile", "infill_patchmatch"}

\* C9: once built, the graph holds exactly one infill node, under the key
\* INPAINT_INFILL: infill_tile with the tile size for "tile",
\* infill_patchmatch without one for "patchmatch"; for either, its outgoing
\* edges are the same three, all from port `image`.
C9_OneInfillNodeOfTheMethod ==
  GraphExists =>
    LET infill == graph.nodes[INPAINT_INFILL]
        out == {graph.edges[i] : i \in {j \in 1..Len(graph.edges) :
                  graph.edges[j].source.node_id = INPAINT_INFILL}}
    IN  /\ {k \in DOMAIN graph.nodes : graph.nodes[k].type \in InfillTypes}
             = {INPAINT_INFILL}
        /\ state.generation.infillMethod = "tile" =>
             /\ infill.type = "infill_tile"
             /\ infill.tile_size = state.generation.tileSize
        /\ state.generation.infillMethod = "patchmatch" =>
             /\ infill.type = "infill_patchmatch"
             /\ "tile_size" \notin DOMAIN infill
        /\ out = { Edge(INPAINT_INFILL, "image", INPAINT_IMAGE, "image"),
                   Edge(INPAINT_INFILL, "image", COLOR_CORRECT, "reference"),
                   Edge(INPAINT_INFILL, "image", CANVAS_OUTPUT, "base_image") }

C9_Witness ==
  /\ pc = "done"
  /\ state.generation.infillMethod = "patchmatch"
  /\ returned.nodes[INPAINT_INFILL].type = "infill_patchmatch"

\* C10: the denoiser's denoising_start is 1 - strength; its denoising_end is
\* 1 without the refiner and refinerStart with it; and a finished run has
\* invoked the refiner stage exactly when denoising_end was taken from
\* refinerStart.
C10_DenoisingBounds ==
  GraphExists =>
    LET denoiser == graph.nodes[INPAINT]
    IN  /\ denoiser.denoising_start + state.generation.img2imgStrength = Scale
        /\ ~state.sdxl.shouldUseSDXLRefiner => denoiser.denoising_end = Scale
        /\ state.sdxl.shouldUseSDXLRefiner =>
             denoiser.denoising_end = state.sdxl.refinerStart
        /\ pc = "done" =>
             IF Invoked("addSDXLRefinerToGraph")
               THEN denoiser.denoising_end = state.sdxl.refinerStart
               ELSE denoiser.denoising_end = Scale

C10_Witness ==
  /\ pc = "done"
  /\ Invoked("addSDXLRefinerToGraph")
  /\ state.sdxl.refinerStart = 1
  /\ state.generation.img2imgStrength = 1
  /\ graph.nodes[INPAINT].denoising_end = 1
  /\ graph.nodes[INPAINT].denoising_start = Scale - 1

====
